---- MODULE Spec2Model ----
(***************************************************************************)
(* Files manager: session layer (AuthController, RedisClient), user        *)
(* registration (UsersController), the file lifecycle (FilesController)    *)
(* and the thumbnail worker.                                               *)
(* Strings are sequences of one-character strings; JavaScript null and     *)
(* undefined are the record null, except in dbClient.db, where the code    *)
(* tells them apart and undefined is a record of its own; ObjectIds are    *)
(* positive integers and their string form is the record [hex |-> n].      *)
(***************************************************************************)
EXTENDS Integers, Sequences, FiniteSets, TLC

VARIABLES
  users,      \* the users collection, in insertion order
  userQueue,  \* jobs added to the 'userQueue' Bull queue
  redis,      \* the live entries of the key-value store
  now,        \* the clock of the key-value store, in seconds
  ticks,      \* how many times the clock has advanced
  nextToken,  \* the next value uuidv4() returns for a token
  files,      \* the files collection, in insertion order
  disk,       \* the paths written under FOLDER_PATH
  nextBlob,   \* the next value uuidv4() returns for a file name
  fileQueue,  \* jobs added to the 'fileQueue' Bull queue
  up,         \* the postUpload request in flight
  resp,       \* the last request handled and its response
  issued,     \* history: the tokens getConnect returned, with user and time
  revoked,    \* history: the tokens getDisconnect answered 204 for
  trip,       \* history: a publish of a private record and what came after
  fileProcessingQueue,  \* jobs waiting in the 'fileProcessingQueue' Bull queue
  runs,       \* the jobs the worker's handler was called for, in order
  thumbnails, \* the contents of the files the worker wrote
  reg,        \* the registrations between their lookup and their insert
  db,         \* dbClient.db: the handle the connect promise leaves
  isClientConnected  \* redisClient.isClientConnected

vars == <<users, userQueue, redis, now, ticks, nextToken, files, disk,
          nextBlob, fileQueue, up, resp, issued, revoked, trip,
          fileProcessingQueue, runs, thumbnails, reg, db, isClientConnected>>

sessionVars == <<redis, now, ticks, nextToken, issued, revoked>>
fileVars == <<files, disk, nextBlob, fileQueue, up>>
workerVars == <<fileProcessingQueue, runs, thumbnails>>
clientVars == <<db, isClientConnected>>

(***************************************************************************)
(* Bounds                                                                  *)
(***************************************************************************)
MaxUsers == 2
MaxTokens == 2
MaxTicks == 2
MaxFiles == 2
MaxEmptyJobs == 1

(***************************************************************************)
(* Values                                                                  *)
(***************************************************************************)
null == [null |-> TRUE]
undefined == [undefined |-> TRUE]

Emails == {<<"u">>, <<"v">>}
Passwords == {<<"a">>, <<"a", ":", "b">>}
TickSteps == {1, 86399}

\* String(s).split(sep)
RECURSIVE Split(_, _)
Split(s, sep) ==
  IF \E i \in 1..Len(s) : s[i] = sep
  THEN LET i == CHOOSE k \in 1..Len(s) :
                  s[k] = sep /\ \A j \in 1..(k - 1) : s[j] # sep
       IN <<SubSeq(s, 1, i - 1)>> \o Split(SubSeq(s, i + 1, Len(s)), sep)
  ELSE <<s>>

\* base64 of a string, and Buffer.from(x, 'base64').toString('utf-8')
btoa(s) == [b64 |-> s]
atob(x) == x.b64

\* sha1(password): deterministic, never the clear text
sha1(p) == <<"sha1">> \o p

\* ObjectId.toString() and ObjectId(string)
toString(oid) == [hex |-> oid]
FreshOid == 0
ObjectId(x) == IF x = null THEN FreshOid ELSE x.hex

UserOid(i) == 100 + i

(***************************************************************************)
(* RedisClient                                                             *)
(***************************************************************************)
RedisGet(store, key, t) ==
  IF \E e \in store : e.key = key /\ t < e.expireAt
  THEN (CHOOSE e \in store : e.key = key /\ t < e.expireAt).value
  ELSE null

RedisSet(store, key, value, duration, t) ==
  {e \in store : e.key # key}
    \cup {[key |-> key, value |-> value, expireAt |-> t + duration]}

RedisDelNothing(store, key) == store

RedisDel(store, key) == {e \in store : e.key # key}

\* the store drops the entries whose time to live has run out
RedisExpire(store, t) == {e \in store : t < e.expireAt}

(***************************************************************************)
(* utils/user                                                              *)
(***************************************************************************)
AuthKey(token) == <<"auth_", token>>

getUserIdAndKey(xToken) ==
  IF xToken = null
  THEN [userId |-> null, key |-> null]
  ELSE [userId |-> RedisGet(redis, AuthKey(xToken), now),
        key |-> AuthKey(xToken)]

getUserById(oid) ==
  IF \E i \in 1..Len(users) : users[i].id = oid
  THEN users[CHOOSE i \in 1..Len(users) : users[i].id = oid]
  ELSE null

getUserByCredentials(email, password) ==
  LET hit(i) == users[i].email = email /\ users[i].password = password
  IN IF \E i \in 1..Len(users) : hit(i)
     THEN users[CHOOSE i \in 1..Len(users) :
                  hit(i) /\ \A j \in 1..(i - 1) : ~hit(j)]
     ELSE null

Response(op, req, status, body) ==
  [op |-> op, req |-> req, status |-> status, body |-> body]

Unauthorized == [error |-> "Unauthorized"]
NotFound == [error |-> "Not found"]

(***************************************************************************)
(* UsersController                                                         *)
(***************************************************************************)
\* the 400 answer of postNew, or null when the email is not yet registered
postNewCheck(email, password) ==
  IF email = <<>> THEN [msg |-> "Missing email"]
  ELSE IF password = <<>> THEN [msg |-> "Missing password"]
  ELSE IF \E i \in 1..Len(users) : users[i].email = email
    THEN [msg |-> "Already exist"]
  ELSE null

\* the document insertOne adds: the store gives it a fresh id
insertOne(email, hashedPassword) ==
  [id |-> UserOid(Len(users) + 1), email |-> email,
   password |-> hashedPassword]

\* a registration that no other registration overlaps and whose insert
\* succeeds
postNew(email, password) ==
  LET req == null
      error == postNewCheck(email, password)
      doc == insertOne(email, sha1(password))
  IN /\ UNCHANGED <<sessionVars, fileVars>>
     /\ IF error # null
        THEN /\ resp' = Response("postNew", req, 400, [error |-> error.msg])
             /\ UNCHANGED <<users, userQueue>>
        ELSE /\ Len(users) < MaxUsers
             /\ users' = Append(users, doc)
             /\ userQueue' = Append(userQueue, [userId |-> toString(doc.id)])
             /\ resp' = Response("postNew", req, 201,
                                 [id |-> doc.id, email |-> email])

\* postNew up to `await findOne`: the checks and the lookup
postNewFind(email, password) ==
  LET req == [email |-> email]
      error == postNewCheck(email, password)
  IN /\ UNCHANGED <<users, userQueue, sessionVars, fileVars, trip, workerVars,
                    clientVars>>
     /\ IF error # null
        THEN /\ resp' = Response("postNew", req, 400, [error |-> error.msg])
             /\ UNCHANGED reg
        ELSE /\ Len(userQueue) + Len(reg) < MaxUsers
             /\ reg' = Append(reg, [email |-> email,
                                    hashedPassword |-> sha1(password)])
             /\ UNCHANGED resp

\* postNew from `await insertOne` on, for the k-th registration in flight
postNewInsert(k, ok) ==
  /\ k \in 1..Len(reg)
  /\ LET req == [email |-> reg[k].email]
         doc == insertOne(reg[k].email, reg[k].hashedPassword)
     IN IF ok
        THEN /\ users' = Append(users, doc)
             /\ userQueue' = Append(userQueue, [userId |-> toString(doc.id)])
             /\ resp' = Response("postNew", req, 201,
                                 [id |-> doc.id, email |-> doc.email])
        ELSE /\ userQueue' = Append(userQueue, [empty |-> TRUE])
             /\ resp' = Response("postNew", req, 500,
                                 [error |-> "Error creating user"])
             /\ UNCHANGED users
  /\ reg' = [i \in 1..(Len(reg) - 1) |-> IF i < k THEN reg[i] ELSE reg[i + 1]]
  /\ UNCHANGED <<sessionVars, fileVars, trip, workerVars, clientVars>>

\* a response that is the user document as stored
userResponseAsStored(user) == user

\* { id: user._id, ...user } without _id and without password
userResponse(user) == [f \in DOMAIN user \ {"password"} |-> user[f]]

\* the response of getMe
getMeResult(xToken) ==
  LET userId == getUserIdAndKey(xToken).userId
      user == getUserById(ObjectId(userId))
  IN IF user = null THEN [status |-> 401, body |-> Unauthorized]
     ELSE [status |-> 200, body |-> userResponse(user)]

getMe(xToken) ==
  LET out == getMeResult(xToken)
  IN /\ UNCHANGED <<users, userQueue, sessionVars, fileVars>>
     /\ resp' = Response("getMe", [token |-> xToken], out.status, out.body)

(***************************************************************************)
(* AuthController                                                          *)
(***************************************************************************)
expirationInSecondsShort == 24 * 360
expirationInSeconds == 24 * 3600

\* the two fields the handler takes from the decoded credentials
Credentials(authorization) ==
  LET credentials == IF authorization = null THEN null
                     ELSE authorization.credentials
      parts == IF credentials = null THEN <<>>
               ELSE Split(atob(credentials), ":")
  IN [given |-> credentials # null,
      email |-> IF Len(parts) >= 1 THEN parts[1] ELSE <<>>,
      password |-> IF Len(parts) >= 2 THEN parts[2] ELSE <<>>]

getConnect(authorization) ==
  LET c == Credentials(authorization)
      user == getUserByCredentials(c.email, sha1(c.password))
      token == [uuid |-> nextToken]
      req == [authorization |-> authorization]
  IN /\ UNCHANGED <<users, userQueue, now, ticks, revoked, fileVars>>
     /\ IF ~c.given \/ c.email = <<>> \/ c.password = <<>> \/ user = null
        THEN /\ resp' = Response("getConnect", req, 401, Unauthorized)
             /\ UNCHANGED <<redis, nextToken, issued>>
        ELSE /\ nextToken <= MaxTokens
             /\ redis' = RedisSet(redis, AuthKey(token), toString(user.id),
                                  expirationInSeconds, now)
             /\ nextToken' = nextToken + 1
             /\ issued' = issued \cup
                  {[token |-> token, userId |-> user.id, at |-> now]}
             /\ resp' = Response("getConnect", req, 200, [token |-> token])

\* a logout that deletes the key and answers 204 whatever the lookup gave
getDisconnectUnconditional(xToken) ==
  [status |-> 204, body |-> null,
   redis |-> IF xToken = null THEN redis
             ELSE RedisDel(redis, AuthKey(xToken))]

\* the response of getDisconnect and the store it leaves
getDisconnectResult(xToken) ==
  LET r == getUserIdAndKey(xToken)
  IN IF r.userId = null
     THEN [status |-> 401, body |-> Unauthorized, redis |-> redis]
     ELSE [status |-> 204, body |-> null, redis |-> RedisDel(redis, r.key)]

getDisconnect(xToken) ==
  LET out == getDisconnectResult(xToken)
      req == [token |-> xToken]
  IN /\ UNCHANGED <<users, userQueue, now, ticks, nextToken, issued, fileVars>>
     /\ redis' = out.redis
     /\ revoked' = IF out.status = 204 THEN revoked \cup {xToken} ELSE revoked
     /\ resp' = Response("getDisconnect", req, out.status, out.body)

\* time passes in the key-value store
Tick(d) ==
  /\ ticks < MaxTicks
  /\ now' = now + d
  /\ ticks' = ticks + 1
  /\ redis' = RedisExpire(redis, now + d)
  /\ UNCHANGED <<users, userQueue, nextToken, issued, revoked, resp, fileVars>>

(***************************************************************************)
(* utils/basic and utils/file                                              *)
(***************************************************************************)
FileOid(i) == 200 + i

\* the number 0 of a request body, the root parent
Zero == [number |-> 0]

\* a string that is not the hex form of an ObjectId
BadId == [bad |-> TRUE]

isValidId(id) == "hex" \in DOMAIN id

FileTypes == {"folder", "file", "image"}

getFileById(oid) ==
  IF \E i \in 1..Len(files) : files[i].id = oid
  THEN files[CHOOSE i \in 1..Len(files) : files[i].id = oid]
  ELSE null

getFileByIdAndUser(oid, uid) ==
  IF \E i \in 1..Len(files) : files[i].id = oid /\ files[i].userId = uid
  THEN files[CHOOSE i \in 1..Len(files) :
               files[i].id = oid /\ files[i].userId = uid]
  ELSE null

\* the record as the responses show it
processFile(doc) ==
  [id |-> doc.id, userId |-> doc.userId, name |-> doc.name,
   type |-> doc.type, isPublic |-> doc.isPublic, parentId |-> doc.parentId]

isOwnerAndPublic(file, userId) ==
  file.isPublic \/ (userId # null /\ userId = toString(file.userId))

\* a validateBody that takes the parentId as it comes
validateBodyAnyParent(body) ==
  LET parentId == IF body.parentId = null THEN Zero ELSE body.parentId
      isPublic == IF body.isPublic = null THEN FALSE ELSE body.isPublic.bool
      fileParams == [name |-> body.name, type |-> body.type,
                     parentId |-> parentId, isPublic |-> isPublic,
                     data |-> body.data]
      error == IF body.name = <<>> THEN [msg |-> "Missing name"]
               ELSE IF body.type \notin FileTypes THEN [msg |-> "Missing type"]
               ELSE IF body.type # "folder" /\ body.data = null
                 THEN [msg |-> "Missing data"]
               ELSE null
  IN [error |-> error, fileParams |-> fileParams]

validateBody(body) ==
  LET parentId == IF body.parentId = null THEN Zero ELSE body.parentId
      isPublic == IF body.isPublic = null THEN FALSE ELSE body.isPublic.bool
      parent == IF isValidId(parentId) THEN getFileById(ObjectId(parentId))
                ELSE null
      fileParams == [name |-> body.name, type |-> body.type,
                     parentId |-> parentId, isPublic |-> isPublic,
                     data |-> body.data]
      error == IF body.name = <<>> THEN [msg |-> "Missing name"]
               ELSE IF body.type \notin FileTypes THEN [msg |-> "Missing type"]
               ELSE IF body.type # "folder" /\ body.data = null
                 THEN [msg |-> "Missing data"]
               ELSE IF parentId # Zero /\ parent = null
                 THEN [msg |-> "Parent not found"]
               ELSE IF parentId # Zero /\ parent.type # "folder"
                 THEN [msg |-> "Parent not found"]
               ELSE null
  IN [error |-> error, fileParams |-> fileParams]

\* saveFile: the blob is written, then the record is inserted
saveFileRecordFirst(type) ==
  IF type = "folder" THEN <<"insert">> ELSE <<"insert", "write">>

saveFileSteps(type) ==
  IF type = "folder" THEN <<"insert">> ELSE <<"write", "insert">>

\* getFileData: the bytes at localPath, or at localPath_<size>
ThumbnailWidths == {500, 250, 100}

getFileData(file, size) ==
  LET path == IF size \in ThumbnailWidths
              THEN [blob |-> file.localPath.blob, width |-> size]
              ELSE file.localPath
  IN IF path \in disk
     THEN [error |-> null, code |-> 200, data |-> path]
     ELSE [error |-> [msg |-> "Not found"], code |-> 404, data |-> null]

\* publishUnpublish: the outcome and the files collection it leaves
publishUnpublish(xToken, fileId, setPublish) ==
  LET userId == getUserIdAndKey(xToken).userId
      user == getUserById(ObjectId(userId))
      file == IF isValidId(fileId) /\ isValidId(userId)
              THEN getFileByIdAndUser(ObjectId(fileId), ObjectId(userId))
              ELSE null
  IN IF ~isValidId(userId) \/ user = null
     THEN [error |-> [msg |-> "Unauthorized"], code |-> 401, updatedFile |-> null,
           files |-> files]
     ELSE IF file = null
     THEN [error |-> [msg |-> "Not found"], code |-> 404, updatedFile |-> null,
           files |-> files]
     ELSE LET i == CHOOSE k \in 1..Len(files) : files[k].id = file.id
              updated == [files EXCEPT ![i].isPublic = setPublish]
          IN [error |-> null, code |-> 200,
              updatedFile |-> processFile(updated[i]), files |-> updated]

(***************************************************************************)
(* FilesController                                                         *)
(***************************************************************************)
\* `response.body`: an Express response carries no body property
responseBody == null

\* the answers of basicUtils.isValidId(userId). For an absent user id the
\* answer depends on how the helper tests: ObjectId(null) is a fresh id, so a
\* helper that tries the constructor accepts what one that reads the text
\* refuses
isValidUserId(userId) ==
  IF userId = null THEN BOOLEAN ELSE {isValidId(userId)}

\* the jobs without payload in the 'fileQueue' queue
EmptyJobs == {i \in 1..Len(fileQueue) : fileQueue[i] = [empty |-> TRUE]}

postUploadBegin(xToken, body) ==
  LET userId == getUserIdAndKey(xToken).userId
      user == getUserById(ObjectId(userId))
      v == validateBody(body)
      req == [token |-> xToken, type |-> body.type, saveCode |-> 0,
              parentId |-> body.parentId]
      path == IF body.type = "folder" THEN null ELSE [blob |-> nextBlob]
  IN /\ up = null
     /\ UNCHANGED <<users, userQueue, sessionVars, files, disk>>
     /\ \E valid \in isValidUserId(userId) :
        IF ~valid
        THEN /\ resp' = Response("postUpload", req, 401, Unauthorized)
             /\ UNCHANGED <<up, nextBlob, fileQueue>>
        ELSE IF userId = null /\ body.type = "image"
        THEN /\ Cardinality(EmptyJobs) < MaxEmptyJobs
             /\ fileQueue' = Append(fileQueue, [empty |-> TRUE])
             /\ resp' = Response("postUpload", req, 401, Unauthorized)
             /\ UNCHANGED <<up, nextBlob>>
        ELSE IF user = null
        THEN /\ resp' = Response("postUpload", req, 401, Unauthorized)
             /\ UNCHANGED <<up, nextBlob, fileQueue>>
        ELSE IF v.error # null
        THEN /\ resp' = Response("postUpload", req, 400, [error |-> v.error.msg])
             /\ UNCHANGED <<up, nextBlob, fileQueue>>
        ELSE IF v.fileParams.parentId # Zero /\ ~isValidId(v.fileParams.parentId)
        THEN /\ resp' = Response("postUpload", req, 400,
                                 [error |-> "Parent not found"])
             /\ UNCHANGED <<up, nextBlob, fileQueue>>
        ELSE /\ Len(files) < MaxFiles
             /\ up' = [req |-> req, userId |-> userId,
                       fileParams |-> v.fileParams,
                       todo |-> saveFileSteps(body.type),
                       localPath |-> path, result |-> null]
             /\ UNCHANGED <<resp, nextBlob, fileQueue>>

\* saveFile decodes the data and writes the blob
saveFileWrite(failure) ==
  /\ up # null /\ up.todo # <<>> /\ Head(up.todo) = "write"
  /\ UNCHANGED <<users, userQueue, sessionVars, files, fileQueue, resp>>
  /\ IF failure = "none"
     THEN /\ disk' = disk \cup {up.localPath}
          /\ nextBlob' = nextBlob + 1
          /\ up' = [up EXCEPT !.todo = Tail(up.todo)]
     ELSE /\ UNCHANGED <<disk, nextBlob>>
          /\ up' = [up EXCEPT !.todo = <<>>,
                      !.result = [error |-> [msg |-> failure], newFile |-> null,
                                  code |-> IF failure = "decode" THEN 400
                                                                ELSE 500]]

\* saveFile inserts the record
saveFileInsert ==
  /\ up # null /\ up.todo # <<>> /\ Head(up.todo) = "insert"
  /\ UNCHANGED <<users, userQueue, sessionVars, disk, nextBlob, fileQueue, resp>>
  /\ LET p == up.fileParams
         doc == [id |-> FileOid(Len(files) + 1),
                 userId |-> ObjectId(up.userId),
                 name |-> p.name, type |-> p.type, isPublic |-> p.isPublic,
                 parentId |-> IF p.parentId = Zero THEN 0
                              ELSE ObjectId(p.parentId),
                 localPath |-> up.localPath]
     IN /\ files' = Append(files, doc)
        /\ up' = [up EXCEPT !.todo = Tail(up.todo),
                    !.result = [error |-> null, code |-> 201,
                                newFile |-> processFile(doc)]]

\* postUpload after saveFile has returned
postUploadFinish ==
  /\ up # null /\ up.todo = <<>>
  /\ UNCHANGED <<users, userQueue, sessionVars, files, disk, nextBlob>>
  /\ up' = null
  /\ LET r == up.result
         req == [up.req EXCEPT !.saveCode = IF r.error = null THEN 0 ELSE r.code]
     IN IF r.error # null
        THEN IF responseBody = null
             THEN \* reading `type` of undefined throws: no job, no response
                  /\ resp' = Response("postUpload", req, 0,
                                      [threw |-> "TypeError"])
                  /\ UNCHANGED fileQueue
             ELSE /\ fileQueue' = IF responseBody.type = "image"
                                  THEN Append(fileQueue, [userId |-> up.userId])
                                  ELSE fileQueue
                  /\ resp' = Response("postUpload", req, r.code,
                                      [error |-> r.error.msg])
        ELSE /\ fileQueue' =
                  IF up.fileParams.type = "image"
                  THEN Append(fileQueue,
                              [fileId |-> toString(r.newFile.id),
                               userId |-> toString(r.newFile.userId)])
                  ELSE fileQueue
             /\ resp' = Response("postUpload", req, 201, r.newFile)

\* a getShow that looks the record up by its id alone
getShowResultAnyOwner(xToken, fileId) ==
  LET userId == getUserIdAndKey(xToken).userId
      user == getUserById(ObjectId(userId))
      result == getFileById(ObjectId(fileId))
  IN IF user = null THEN [status |-> 401, body |-> Unauthorized]
     ELSE IF ~isValidId(fileId) \/ ~isValidId(userId)
       THEN [status |-> 404, body |-> NotFound]
     ELSE IF result = null THEN [status |-> 404, body |-> NotFound]
     ELSE [status |-> 200, body |-> processFile(result)]

\* the response of getShow
getShowResult(xToken, fileId) ==
  LET userId == getUserIdAndKey(xToken).userId
      user == getUserById(ObjectId(userId))
      result == getFileByIdAndUser(ObjectId(fileId), ObjectId(userId))
  IN IF user = null THEN [status |-> 401, body |-> Unauthorized]
     ELSE IF ~isValidId(fileId) \/ ~isValidId(userId)
       THEN [status |-> 404, body |-> NotFound]
     ELSE IF result = null THEN [status |-> 404, body |-> NotFound]
     ELSE [status |-> 200, body |-> processFile(result)]

getShow(xToken, fileId) ==
  LET out == getShowResult(xToken, fileId)
  IN /\ resp' = Response("getShow", [token |-> xToken, id |-> fileId],
                         out.status, out.body)
     /\ UNCHANGED <<users, userQueue, sessionVars, fileVars>>

\* Number(request.query.page) || 0: a page query is absent (null), the
\* decimal numeral of an integer ([num |-> n]) or some other text
NaN == [nan |-> TRUE]

Number(q) == IF "num" \in DOMAIN q THEN [num |-> q.num] ELSE NaN

\* x || 0 for the number x
PageOf(q) == IF Number(q) = NaN THEN 0 ELSE Number(q).num

pageSize == 20

\* { $skip: page * 20 } with a page size that makes the pages overlap
pipelineSkipOverlap(page) == page * (pageSize - 1)

\* { $skip: page * 20 }
pipelineSkip(page) == page * pageSize

\* getFilesOfParentId: the aggregation $match, $skip, $limit over the files
\* collection in its order; the store rejects a negative $skip
getFilesOfParentId(parentId, skip, limit) ==
  LET matched == SelectSeq(files, LAMBDA doc : doc.parentId = parentId)
  IN IF skip < 0 THEN [threw |-> "MongoError"]
     ELSE [docs |-> SubSeq(matched, skip + 1,
                           IF skip + limit < Len(matched) THEN skip + limit
                           ELSE Len(matched))]

\* the response of getIndex, and the $skip it passed to the store
getIndexResult(xToken, parentIdQuery, pageQuery) ==
  LET userId == getUserIdAndKey(xToken).userId
      user == getUserById(ObjectId(userId))
      root == parentIdQuery = null \/ parentIdQuery = Zero
      page == PageOf(pageQuery)
      folder == IF ~root /\ isValidId(parentIdQuery)
                THEN getFileById(ObjectId(parentIdQuery)) ELSE null
      parentId == IF root THEN 0 ELSE ObjectId(parentIdQuery)
      skip == pipelineSkip(page)
      fileCursor == getFilesOfParentId(parentId, skip, pageSize)
  IN IF user = null
     THEN [status |-> 401, body |-> Unauthorized, skip |-> null]
     ELSE IF ~root /\ ~isValidId(parentIdQuery)
     THEN [status |-> 401, body |-> Unauthorized, skip |-> null]
     ELSE IF ~root /\ (folder = null \/ folder.type # "folder")
     THEN [status |-> 200, body |-> [list |-> <<>>], skip |-> null]
     ELSE IF "threw" \in DOMAIN fileCursor
     THEN [status |-> 0, body |-> fileCursor, skip |-> [number |-> skip]]
     ELSE [status |-> 200,
           body |-> [list |-> [i \in 1..Len(fileCursor.docs) |->
                                 processFile(fileCursor.docs[i])]],
           skip |-> [number |-> skip]]

getIndex(xToken, parentIdQuery, pageQuery) ==
  LET out == getIndexResult(xToken, parentIdQuery, pageQuery)
  IN /\ resp' = Response("getIndex",
                         [token |-> xToken, parentId |-> parentIdQuery,
                          page |-> pageQuery, skip |-> out.skip],
                         out.status, out.body)
     /\ UNCHANGED <<users, userQueue, sessionVars, fileVars>>

\* what putPublish and putUnpublish send for an outcome of publishUnpublish
putPublishResponseAlways200(out) ==
  [status |-> 200, body |-> out.updatedFile]

putPublishResponse(out) ==
  IF out.error # null
  THEN [status |-> out.code, body |-> [error |-> out.error.msg]]
  ELSE [status |-> out.code, body |-> out.updatedFile]

putPublishFlag == TRUE

putUnpublishFlagTrue == TRUE

putUnpublishFlag == FALSE

putPublish(xToken, fileId) ==
  LET out == publishUnpublish(xToken, fileId, putPublishFlag)
      r == putPublishResponse(out)
  IN /\ files' = out.files
     /\ resp' = Response("putPublish", [token |-> xToken, id |-> fileId],
                         r.status, r.body)
     /\ UNCHANGED <<users, userQueue, sessionVars, disk, nextBlob, fileQueue, up>>

putUnpublish(xToken, fileId) ==
  LET out == publishUnpublish(xToken, fileId, putUnpublishFlag)
      r == putPublishResponse(out)
  IN /\ files' = out.files
     /\ resp' = Response("putUnpublish", [token |-> xToken, id |-> fileId],
                         r.status, r.body)
     /\ UNCHANGED <<users, userQueue, sessionVars, disk, nextBlob, fileQueue, up>>

\* a getFile that tells a caller the file is there but not theirs
getFileResultForbidden(xToken, fileId, size) ==
  LET userId == getUserIdAndKey(xToken).userId
      file == IF isValidId(fileId) THEN getFileById(ObjectId(fileId)) ELSE null
  IN IF file = null THEN [status |-> 404, body |-> NotFound]
     ELSE IF ~isOwnerAndPublic(file, userId)
       THEN [status |-> 403, body |-> [error |-> "Forbidden"]]
     ELSE [status |-> 200, body |-> [data |-> file.localPath]]

\* the response of getFile
getFileResult(xToken, fileId, size) ==
  LET userId == getUserIdAndKey(xToken).userId
      file == getFileById(ObjectId(fileId))
  IN IF ~isValidId(fileId) THEN [status |-> 404, body |-> NotFound]
     ELSE IF file = null \/ ~isOwnerAndPublic(file, userId)
       THEN [status |-> 404, body |-> NotFound]
     ELSE IF file.type = "folder"
       THEN [status |-> 400, body |-> [error |-> "A folder doesn't have content"]]
     ELSE LET d == getFileData(file, size)
          IN IF d.error # null
             THEN [status |-> d.code, body |-> [error |-> d.error.msg]]
             ELSE [status |-> 200,
                   body |-> [data |-> d.data, contentType |-> file.name]]

getFile(xToken, fileId, size) ==
  LET out == getFileResult(xToken, fileId, size)
  IN /\ resp' = Response("getFile", [token |-> xToken, id |-> fileId],
                         out.status, out.body)
     /\ UNCHANGED <<users, userQueue, sessionVars, fileVars>>

(***************************************************************************)
(* The thumbnail worker                                                    *)
(***************************************************************************)
thumbnailWidths == <<500, 250, 100>>

\* the raster imageThumbnail makes of the image at localPath
Raster(localPath, width) == [from |-> localPath, width |-> width]

\* `${localPath}_${width}`
thumbnailPath(localPath, width) == [blob |-> localPath.blob, width |-> width]

\* an imageThumbnail that reads the width of its options when it completes
imageThumbnailWidthLate(atCall, atCompletion) == atCompletion

\* imageThumbnail reads the width of its options when it is called
imageThumbnailWidth(atCall, atCompletion) == atCall

\* a writeFile that adds to what the path holds
writeFileAppend(store, path, data) ==
  {f \in store : f.path # path}
    \cup {[path |-> path,
           data |-> IF \E f \in store : f.path = path
                    THEN [twice |-> data] ELSE data]}

\* fsPromises.writeFile: the path holds the data, whatever it held
writeFile(store, path, data) ==
  {f \in store : f.path # path} \cup {[path |-> path, data |-> data]}

\* a failed attempt that takes the unfinished attempts of its job with it
catchErrAbortAll(attempts, width) ==
  [w \in DOMAIN attempts |->
     IF attempts[w].pc \in {"generating", "writing"}
     THEN [attempts[w] EXCEPT !.pc = "failed"] ELSE attempts[w]]

\* catch (err) { console.error(...) }: the attempt is over, logged
catchErr(attempts, width) == [attempts EXCEPT ![width].pc = "failed"]

\* a lookup of the record by its id alone
taskFileDataAnyOwner(data) == getFileById(ObjectId(data.fileId))

\* fileUtils.getFile({ _id: ObjectId(fileId), userId: ObjectId(ownerId) })
taskFileData(data) ==
  getFileByIdAndUser(ObjectId(data.fileId), ObjectId(data.ownerId))

\* the error the handler throws for a job, or null
taskError(data) ==
  LET fileId == IF "fileId" \in DOMAIN data THEN data.fileId ELSE null
      ownerId == IF "ownerId" \in DOMAIN data THEN data.ownerId ELSE null
  IN IF ownerId = null THEN [msg |-> "Owner ID is required."]
     ELSE IF fileId = null THEN [msg |-> "File ID is required."]
     ELSE IF ~isValidId(fileId) \/ ~isValidId(ownerId)
       THEN [msg |-> "Invalid File ID or Owner ID."]
     ELSE IF taskFileData(data) = null THEN [msg |-> "File not found."]
     ELSE null

\* thumbnailWidths.forEach(async (width) => ...): each callback runs up to
\* its first await, in the order of the list: it sets the width of the one
\* options object and calls imageThumbnail
RECURSIVE forEach(_, _)
forEach(i, state) ==
  IF i > Len(thumbnailWidths) THEN state
  ELSE LET width == thumbnailWidths[i]
           thumbnailOptions == [width |-> width]
       IN forEach(i + 1,
                  [thumbnailOptions |-> thumbnailOptions,
                   attempts |-> [state.attempts EXCEPT ![width] =
                                   [pc |-> "generating",
                                    atCall |-> thumbnailOptions.width,
                                    raster |-> null]]])

NoAttempts ==
  [w \in {thumbnailWidths[i] : i \in 1..Len(thumbnailWidths)} |->
     [pc |-> "none", atCall |-> 0, raster |-> null]]

\* fileProcessingQueue.process: the handler takes the next job and runs until
\* it returns or throws; the queue marks the job completed or failed, and a
\* failed job is not tried again
process ==
  /\ fileProcessingQueue # <<>>
  /\ LET data == Head(fileProcessingQueue)
         error == taskError(data)
         fileData == taskFileData(data)
         started == forEach(1, [thumbnailOptions |-> null,
                                attempts |-> NoAttempts])
     IN /\ fileProcessingQueue' = Tail(fileProcessingQueue)
        /\ runs' = Append(runs,
             IF error # null
             THEN [data |-> data, outcome |-> "failed", error |-> error,
                   localPath |-> null, thumbnailOptions |-> null,
                   attempts |-> NoAttempts]
             ELSE [data |-> data, outcome |-> "completed", error |-> null,
                   localPath |-> fileData.localPath,
                   thumbnailOptions |-> started.thumbnailOptions,
                   attempts |-> started.attempts])
  /\ UNCHANGED <<users, userQueue, sessionVars, fileVars, resp, trip,
                 thumbnails, reg, clientVars>>

\* `await imageThumbnail(localPath, thumbnailOptions)` of one callback ends
imageThumbnailDone(k, width, ok) ==
  /\ k \in 1..Len(runs)
  /\ runs[k].attempts[width].pc = "generating"
  /\ LET a == runs[k].attempts[width]
         w == imageThumbnailWidth(a.atCall, runs[k].thumbnailOptions.width)
     IN runs' = [runs EXCEPT ![k].attempts =
                   IF ok
                   THEN [@ EXCEPT ![width] =
                           [a EXCEPT !.pc = "writing",
                                     !.raster = Raster(runs[k].localPath, w)]]
                   ELSE catchErr(@, width)]
  /\ UNCHANGED <<users, userQueue, sessionVars, fileVars, resp, trip,
                 fileProcessingQueue, thumbnails, reg, clientVars>>

\* `await fsPromises.writeFile(...)` of one callback ends
writeFileDone(k, width, ok) ==
  /\ k \in 1..Len(runs)
  /\ runs[k].attempts[width].pc = "writing"
  /\ LET a == runs[k].attempts[width]
         path == thumbnailPath(runs[k].localPath, width)
     IN IF ok
        THEN /\ thumbnails' = writeFile(thumbnails, path, a.raster)
             /\ disk' = disk \cup {path}
             /\ runs' = [runs EXCEPT ![k].attempts[width].pc = "written"]
        ELSE /\ runs' = [runs EXCEPT ![k].attempts = catchErr(@, width)]
             /\ UNCHANGED <<thumbnails, disk>>
  /\ UNCHANGED <<users, userQueue, sessionVars, files, nextBlob, fileQueue, up,
                 resp, trip, fileProcessingQueue, reg, clientVars>>

(***************************************************************************)
(* DBClient, the events of the two clients, and AppController              *)
(***************************************************************************)
\* this.client.db(this.databaseName)
client_db == [db |-> "files_manager"]

\* the connect promise resolves: .then(() => { this.db = ... })
connectThen ==
  /\ db = undefined
  /\ db' = client_db
  /\ UNCHANGED <<users, userQueue, sessionVars, fileVars, resp, trip,
                 workerVars, reg, isClientConnected>>

\* the connect promise rejects: .catch((err) => { this.db = null })
connectCatch ==
  /\ db = undefined
  /\ db' = null
  /\ UNCHANGED <<users, userQueue, sessionVars, fileVars, resp, trip,
                 workerVars, reg, isClientConnected>>

\* this.client.on('error', ...) and this.client.on('connect', ...)
clientOn(event) ==
  /\ isClientConnected' = (event = "connect")
  /\ UNCHANGED <<users, userQueue, sessionVars, fileVars, resp, trip,
                 workerVars, reg, db>>

redisClient_isAlive == isClientConnected

dbClient_isAlive == db # null

\* this.db.collection(name).countDocuments(), after the guard on isAlive()
countDocuments(collection) ==
  IF ~dbClient_isAlive THEN [number |-> 0]
  ELSE IF db = undefined THEN [threw |-> "TypeError"]
  ELSE [number |-> Len(collection)]

nbUsers == countDocuments(users)
nbFiles == countDocuments(files)

getStatus ==
  /\ resp' = Response("getStatus", null, 200,
                      [redis |-> [bool |-> redisClient_isAlive],
                       db |-> [bool |-> dbClient_isAlive]])
  /\ UNCHANGED <<users, userQueue, sessionVars, fileVars, trip, workerVars,
                 reg, clientVars>>

getStats ==
  /\ resp' = IF "threw" \in DOMAIN nbUsers
             THEN \* the handler's promise rejects: no response is sent
                  Response("getStats", null, 0, nbUsers)
             ELSE IF "threw" \in DOMAIN nbFiles
             THEN Response("getStats", null, 0, nbFiles)
             ELSE Response("getStats", null, 200,
                           [users |-> nbUsers, files |-> nbFiles])
  /\ UNCHANGED <<users, userQueue, sessionVars, fileVars, trip, workerVars,
                 reg, clientVars>>

(***************************************************************************)
(* Requests                                                                *)
(***************************************************************************)
BogusToken == [uuid |-> 0]
TokenInputs == {null, BogusToken} \cup {s.token : s \in issued}

AuthorizationInputs ==
  {null}
    \cup {[credentials |-> btoa(e \o <<":">> \o p)] :
            e \in Emails, p \in Passwords}
    \cup {[credentials |-> btoa(s)] :
            s \in {<<"u">>, <<"u", ":">>, <<":", "a">>}}

\* both clients have connected: requests are served from here on
Connected ==
  /\ db = client_db
  /\ isClientConnected = TRUE

\* the worker's queue is empty and its handler has not run
WorkerIdle ==
  /\ fileProcessingQueue = <<>>
  /\ runs = <<>>
  /\ thumbnails = {}

Init ==
  /\ users = <<>>
  /\ userQueue = <<>>
  /\ redis = {}
  /\ now = 0
  /\ ticks = 0
  /\ nextToken = 1
  /\ files = <<>>
  /\ disk = {}
  /\ nextBlob = 1
  /\ fileQueue = <<>>
  /\ up = null
  /\ resp = Response("none", null, 0, null)
  /\ issued = {}
  /\ revoked = {}
  /\ trip = null
  /\ WorkerIdle
  /\ reg = <<>>
  /\ Connected

NextSession ==
  /\ \/ \E e \in Emails \cup {<<>>}, p \in Passwords \cup {<<>>} : postNew(e, p)
     \/ \E a \in AuthorizationInputs : getConnect(a)
     \/ \E t \in TokenInputs : getDisconnect(t)
     \/ \E t \in TokenInputs : getMe(t)
     \/ \E d \in TickSteps : Tick(d)
  /\ UNCHANGED <<trip, workerVars, reg, clientVars>>

SpecSession == Init /\ [][NextSession]_vars

(***************************************************************************)
(* Registration with its two steps apart, so that registrations overlap,   *)
(* beside login and the lookup of the logged-in user                       *)
(***************************************************************************)
NextRegister ==
  \/ \E e \in Emails \cup {<<>>}, p \in Passwords \cup {<<>>} :
       postNewFind(e, p)
  \/ \E k \in 1..Len(reg), ok \in BOOLEAN : postNewInsert(k, ok)
  \/ /\ \E a \in AuthorizationInputs : getConnect(a)
     /\ UNCHANGED <<trip, workerVars, reg, clientVars>>
  \/ /\ \E t \in TokenInputs : getMe(t)
     /\ UNCHANGED <<trip, workerVars, reg, clientVars>>

SpecRegister == Init /\ [][NextRegister]_vars

(***************************************************************************)
(* The file service, from a state with two registered users logged in      *)
(***************************************************************************)
InitUsers ==
  <<[id |-> UserOid(1), email |-> <<"u">>, password |-> sha1(<<"a">>)],
    [id |-> UserOid(2), email |-> <<"v">>, password |-> sha1(<<"a">>)]>>

InitFiles ==
  /\ users = InitUsers
  /\ userQueue = <<[userId |-> toString(UserOid(1))],
                   [userId |-> toString(UserOid(2))]>>
  /\ redis = {[key |-> AuthKey([uuid |-> i]),
               value |-> toString(UserOid(i)),
               expireAt |-> expirationInSeconds] : i \in 1..2}
  /\ now = 0
  /\ ticks = 0
  /\ nextToken = 3
  /\ files = <<>>
  /\ disk = {}
  /\ nextBlob = 1
  /\ fileQueue = <<>>
  /\ up = null
  /\ resp = Response("none", null, 0, null)
  /\ issued = {[token |-> [uuid |-> i], userId |-> UserOid(i), at |-> 0] :
                 i \in 1..2}
  /\ revoked = {}
  /\ trip = null
  /\ WorkerIdle
  /\ reg = <<>>
  /\ Connected

AbsentFileId == toString(FileOid(0))
FileIdInputs == {toString(files[i].id) : i \in 1..Len(files)}
                  \cup {AbsentFileId, BadId}

SomeData == [b64 |-> <<"d">>]

UploadBodies ==
  {[name |-> <<"n">>, type |-> t, parentId |-> p, isPublic |-> null,
    data |-> IF t = "folder" THEN null ELSE SomeData] :
     t \in FileTypes,
     p \in {null, AbsentFileId, BadId}
             \cup {toString(files[i].id) : i \in 1..Len(files)}}
   \cup {[name |-> <<>>, type |-> "file", parentId |-> null,
          isPublic |-> null, data |-> SomeData],
         [name |-> <<"n">>, type |-> "", parentId |-> null,
          isPublic |-> null, data |-> SomeData],
         [name |-> <<"n">>, type |-> "image", parentId |-> null,
          isPublic |-> null, data |-> null],
         [name |-> <<"n">>, type |-> "file", parentId |-> null,
          isPublic |-> [bool |-> TRUE], data |-> SomeData]}

FileTokenInputs == {BogusToken} \cup {s.token : s \in issued}

\* the tokens of the logged-in users
UserTokenInputs == {s.token : s \in issued}

NextUpload ==
  /\ \/ \E t \in UserTokenInputs, b \in UploadBodies : postUploadBegin(t, b)
     \/ \E f \in {"none", "decode", "write"} : saveFileWrite(f)
     \/ saveFileInsert
     \/ postUploadFinish
  /\ UNCHANGED <<trip, workerVars, reg, clientVars>>

SpecUpload == InitFiles /\ [][NextUpload]_vars

(***************************************************************************)
(* Uploads by callers with and without identity                            *)
(***************************************************************************)
EnqueueBodies ==
  {[name |-> <<"n">>, type |-> t, parentId |-> null, isPublic |-> null,
    data |-> IF t = "folder" THEN null ELSE SomeData] : t \in FileTypes}
   \cup {[name |-> <<"n">>, type |-> "image", parentId |-> null,
          isPublic |-> null, data |-> null],
         [name |-> <<"n">>, type |-> "image", parentId |-> AbsentFileId,
          isPublic |-> null, data |-> SomeData]}

NextEnqueue ==
  /\ \/ \E t \in FileTokenInputs \cup {null}, b \in EnqueueBodies :
          postUploadBegin(t, b)
     \/ \E f \in {"none", "decode", "write"} : saveFileWrite(f)
     \/ saveFileInsert
     \/ postUploadFinish
  /\ UNCHANGED <<trip, workerVars, reg, clientVars>>

SpecEnqueue == InitFiles /\ [][NextEnqueue]_vars

(***************************************************************************)
(* Reading and publishing, from the states uploads and publishing leave:   *)
(* every collection of at most MaxFiles records that uploads by the two    *)
(* users build, each record public or not, no upload in flight. With all   *)
(* of FileTypes these are the states NextUpload, putPublish and            *)
(* putUnpublish reach from InitFiles with no upload in flight.             *)
(***************************************************************************)
\* the four handlers tell folders from the rest and nothing more
AccessTypes == {"folder", "file"}

BlobsOf(c) == {c[i].localPath : i \in {k \in 1..Len(c) : c[k].type # "folder"}}

RecordsAfter(c) ==
  {[id |-> FileOid(Len(c) + 1), userId |-> u, name |-> <<"n">>, type |-> t,
    isPublic |-> p, parentId |-> par,
    localPath |-> IF t = "folder" THEN null
                  ELSE [blob |-> Cardinality(BlobsOf(c)) + 1]] :
     u \in {InitUsers[k].id : k \in 1..Len(InitUsers)},
     t \in AccessTypes, p \in BOOLEAN,
     par \in {0} \cup {c[i].id : i \in {k \in 1..Len(c) : c[k].type = "folder"}}}

RECURSIVE Collections(_)
Collections(n) ==
  IF n = 0 THEN {<<>>}
  ELSE LET prev == Collections(n - 1)
       IN prev \cup {Append(c, r) : <<c, r>> \in
                       {<<c, r>> \in UNION {{c} \X RecordsAfter(c) : c \in prev} :
                          Len(c) = n - 1}}

RECURSIVE JobsOf(_)
JobsOf(c) ==
  IF c = <<>> THEN <<>>
  ELSE LET last == c[Len(c)]
           before == JobsOf(SubSeq(c, 1, Len(c) - 1))
       IN IF last.type = "image"
          THEN Append(before, [fileId |-> toString(last.id),
                               userId |-> toString(last.userId)])
          ELSE before

InitAccess ==
  /\ users = InitUsers
  /\ userQueue = <<[userId |-> toString(UserOid(1))],
                   [userId |-> toString(UserOid(2))]>>
  /\ redis = {[key |-> AuthKey([uuid |-> i]),
               value |-> toString(UserOid(i)),
               expireAt |-> expirationInSeconds] : i \in 1..2}
  /\ now = 0
  /\ ticks = 0
  /\ nextToken = 3
  /\ files \in Collections(MaxFiles)
  /\ disk = BlobsOf(files)
  /\ nextBlob = Cardinality(BlobsOf(files)) + 1
  /\ fileQueue = JobsOf(files)
  /\ up = null
  /\ resp = Response("none", null, 0, null)
  /\ issued = {[token |-> [uuid |-> i], userId |-> UserOid(i), at |-> 0] :
                 i \in 1..2}
  /\ revoked = {}
  /\ trip = null
  /\ WorkerIdle
  /\ reg = <<>>
  /\ Connected

NextAccess ==
  /\ \/ \E t \in FileTokenInputs, id \in FileIdInputs : putPublish(t, id)
     \/ \E t \in FileTokenInputs, id \in FileIdInputs : putUnpublish(t, id)
     \/ \E t \in FileTokenInputs, id \in FileIdInputs : getShow(t, id)
     \/ \E t \in FileTokenInputs, id \in FileIdInputs, size \in {0, 500} :
          getFile(t, id, size)
  /\ UNCHANGED <<trip, workerVars, reg, clientVars>>

SpecAccess == InitAccess /\ [][NextAccess]_vars

(***************************************************************************)
(* Publishing alone, with the history of the last publish of a private     *)
(* record: pending until the next change of the collection, done when that *)
(* change is the unpublish of the same record.                             *)
(***************************************************************************)
TripAfter(op, xToken, fileId) ==
  LET out == publishUnpublish(xToken, fileId, op = "putPublish")
      rec == IF isValidId(fileId) THEN getFileById(ObjectId(fileId)) ELSE null
  IN IF out.error # null THEN trip
     ELSE IF op = "putPublish" /\ ~rec.isPublic
       THEN [id |-> fileId, before |-> files, done |-> FALSE]
     ELSE IF op = "putUnpublish" /\ trip # null /\ ~trip.done /\ trip.id = fileId
       THEN [trip EXCEPT !.done = TRUE]
     ELSE null

NextRoundTrip ==
  /\ \/ \E t \in FileTokenInputs, id \in FileIdInputs :
          putPublish(t, id) /\ trip' = TripAfter("putPublish", t, id)
     \/ \E t \in FileTokenInputs, id \in FileIdInputs :
          putUnpublish(t, id) /\ trip' = TripAfter("putUnpublish", t, id)
  /\ UNCHANGED <<workerVars, reg, clientVars>>

SpecRoundTrip == InitAccess /\ [][NextRoundTrip]_vars

(***************************************************************************)
(* Listing, from the collections uploads leave: a folder and a file at the *)
(* root, then n files that all go into the folder, or by turns into the    *)
(* folder and the root.                                                    *)
(***************************************************************************)
MaxListed == 45
MaxPage == 3

ListedFiles(n, stride) ==
  [i \in 1..(n + 2) |->
     [id |-> FileOid(i),
      userId |-> UserOid(1 + (i % 2)),
      name |-> <<"n">>,
      type |-> IF i = 1 THEN "folder" ELSE "file",
      isPublic |-> FALSE,
      parentId |-> IF i > 2 /\ i % stride = 0 THEN FileOid(1) ELSE 0,
      localPath |-> IF i = 1 THEN null ELSE [blob |-> i - 1]]]

InitIndex ==
  /\ users = InitUsers
  /\ userQueue = <<[userId |-> toString(UserOid(1))],
                   [userId |-> toString(UserOid(2))]>>
  /\ redis = {[key |-> AuthKey([uuid |-> i]),
               value |-> toString(UserOid(i)),
               expireAt |-> expirationInSeconds] : i \in 1..2}
  /\ now = 0
  /\ ticks = 0
  /\ nextToken = 3
  /\ \E n \in 0..MaxListed, stride \in {1, 2} : files = ListedFiles(n, stride)
  /\ disk = BlobsOf(files)
  /\ nextBlob = Cardinality(BlobsOf(files)) + 1
  /\ fileQueue = <<>>
  /\ up = null
  /\ resp = Response("none", null, 0, null)
  /\ issued = {[token |-> [uuid |-> i], userId |-> UserOid(i), at |-> 0] :
                 i \in 1..2}
  /\ revoked = {}
  /\ trip = null
  /\ WorkerIdle
  /\ reg = <<>>
  /\ Connected

\* the parentId and page queries of a listing request
\* Zero stands for the query text '0'
ParentIdInputs ==
  {null, Zero, BadId, AbsentFileId, toString(FileOid(1)), toString(FileOid(2))}

PageInputs == {null, [text |-> "abc"]} \cup {[num |-> p] : p \in (-1)..MaxPage}

NextIndex ==
  /\ \E t \in FileTokenInputs, par \in ParentIdInputs, q \in PageInputs :
       getIndex(t, par, q)
  /\ UNCHANGED <<trip, workerVars, reg, clientVars>>

SpecIndex == InitIndex /\ [][NextIndex]_vars

(***************************************************************************)
(* The worker, from the state an image upload by the first user leaves.    *)
(* The worker's queue is durable: what it holds when the worker starts is  *)
(* a job delivered once or twice.                                          *)
(***************************************************************************)
WorkerFiles ==
  <<[id |-> FileOid(1), userId |-> UserOid(1), name |-> <<"n">>,
     type |-> "image", isPublic |-> FALSE, parentId |-> 0,
     localPath |-> [blob |-> 1]]>>

GoodJob ==
  [fileId |-> toString(FileOid(1)), ownerId |-> toString(UserOid(1))]

JobInputs ==
  {GoodJob,
   [fileId |-> toString(FileOid(1)), userId |-> toString(UserOid(1))],
   [ownerId |-> toString(UserOid(1))],
   [fileId |-> BadId, ownerId |-> toString(UserOid(1))],
   [fileId |-> toString(FileOid(1)), ownerId |-> toString(UserOid(2))],
   [fileId |-> AbsentFileId, ownerId |-> toString(UserOid(1))],
   [empty |-> TRUE]}

QueueInputs == {<<>>} \cup {<<j>> : j \in JobInputs}
                 \cup {<<j, j>> : j \in JobInputs}

InitWorkerWith(queues) ==
  /\ users = InitUsers
  /\ userQueue = <<[userId |-> toString(UserOid(1))],
                   [userId |-> toString(UserOid(2))]>>
  /\ redis = {[key |-> AuthKey([uuid |-> i]),
               value |-> toString(UserOid(i)),
               expireAt |-> expirationInSeconds] : i \in 1..2}
  /\ now = 0
  /\ ticks = 0
  /\ nextToken = 3
  /\ files = WorkerFiles
  /\ disk = BlobsOf(files)
  /\ nextBlob = Cardinality(BlobsOf(files)) + 1
  /\ fileQueue = JobsOf(files)
  /\ up = null
  /\ resp = Response("none", null, 0, null)
  /\ issued = {[token |-> [uuid |-> i], userId |-> UserOid(i), at |-> 0] :
                 i \in 1..2}
  /\ revoked = {}
  /\ trip = null
  /\ fileProcessingQueue \in queues
  /\ runs = <<>>
  /\ thumbnails = {}
  /\ reg = <<>>
  /\ Connected

InitWorker == InitWorkerWith(QueueInputs)

Widths == {thumbnailWidths[i] : i \in 1..Len(thumbnailWidths)}

NextWorker ==
  \/ process
  \/ \E k \in 1..Len(runs), w \in Widths, ok \in BOOLEAN :
       imageThumbnailDone(k, w, ok)
  \/ \E k \in 1..Len(runs), w \in Widths, ok \in BOOLEAN :
       writeFileDone(k, w, ok)

SpecWorker == InitWorker /\ [][NextWorker]_vars

(***************************************************************************)
(* Uploads and the worker side by side. The server finishes the requests   *)
(* it has begun and the worker takes the jobs its queue holds.             *)
(***************************************************************************)
InitPipeline == InitWorkerWith({<<>>, <<GoodJob>>})

PipelineBodies ==
  {[name |-> <<"n">>, type |-> t, parentId |-> null, isPublic |-> null,
    data |-> SomeData] : t \in {"file", "image"}}

UploadSteps ==
  /\ \/ \E f \in {"none", "write"} : saveFileWrite(f)
     \/ saveFileInsert
     \/ postUploadFinish
  /\ UNCHANGED <<trip, workerVars, reg, clientVars>>

NextPipeline ==
  \/ /\ \E t \in FileTokenInputs, b \in PipelineBodies : postUploadBegin(t, b)
     /\ UNCHANGED <<trip, workerVars, reg, clientVars>>
  \/ UploadSteps
  \/ NextWorker

SpecPipeline ==
  /\ InitPipeline
  /\ [][NextPipeline]_vars
  /\ WF_vars(UploadSteps)
  /\ WF_vars(NextWorker)

(***************************************************************************)
(* The server from the construction of its two clients: the database holds *)
(* what earlier runs left, the connect promise of DBClient is pending.     *)
(***************************************************************************)
InitStatus ==
  /\ users \in {SubSeq(InitUsers, 1, n) : n \in 0..Len(InitUsers)}
  /\ userQueue = [i \in 1..Len(users) |-> [userId |-> toString(users[i].id)]]
  /\ redis = {}
  /\ now = 0
  /\ ticks = 0
  /\ nextToken = 1
  /\ files \in {SubSeq(WorkerFiles, 1, n) : n \in 0..Len(WorkerFiles)}
  /\ disk = BlobsOf(files)
  /\ nextBlob = Cardinality(BlobsOf(files)) + 1
  /\ fileQueue = JobsOf(files)
  /\ up = null
  /\ resp = Response("none", null, 0, null)
  /\ issued = {}
  /\ revoked = {}
  /\ trip = null
  /\ WorkerIdle
  /\ reg = <<>>
  /\ db = undefined
  /\ isClientConnected = TRUE

NextStatus ==
  \/ connectThen
  \/ connectCatch
  \/ \E event \in {"error", "connect"} : clientOn(event)
  \/ getStatus
  \/ getStats

SpecStatus == InitStatus /\ [][NextStatus]_vars

(***************************************************************************)
(* Session layer: properties                                               *)
(***************************************************************************)
resolve(token) == getUserIdAndKey(token).userId

\* C1: from login until 24 hours (86400 s) have passed or logout has
\* answered for the token, the token resolves to the id of the user who
\* logged in, however often it was resolved; from 24 hours after login on
\* it resolves to no identity.
C1_TokenResolvesUntilExpiry ==
  \A s \in issued :
    /\ (s.token \notin revoked /\ now < s.at + 86400)
         => resolve(s.token) = toString(s.userId)
    /\ now >= s.at + 86400 => resolve(s.token) = null
    /\ (resp.op = "getMe" /\ resp.req.token = s.token /\ resp.status = 200)
         => resp.body.id = s.userId

\* a token resolved by getMe one second before its 24 hours are over
C1_Witness ==
  \E s \in issued :
    /\ now = s.at + 86399
    /\ s.token \notin revoked
    /\ resp.op = "getMe" /\ resp.req.token = s.token
    /\ resp.status = 200 /\ resp.body.id = s.userId

\* C2: a token for which logout has completed resolves to no identity in
\* every later state, and getMe presented with it answers 401, also when
\* the same user has logged in again.
C2_LoggedOutTokenStaysDead ==
  \A t \in revoked :
    /\ resolve(t) = null
    /\ (resp.op = "getMe" /\ resp.req.token = t) => resp.status = 401

\* getMe answered 401 for a logged-out token while a later session of the
\* same user is live
C2_Witness ==
  \E s1 \in issued, s2 \in issued :
    /\ s1.token \in revoked /\ s2.token \notin revoked
    /\ s1.userId = s2.userId /\ s1.token.uuid < s2.token.uuid
    /\ resolve(s2.token) = toString(s2.userId)
    /\ resp.op = "getMe" /\ resp.req.token = s1.token /\ resp.status = 401

\* C3 as stated: a second logout of a token, whose session entry the first
\* logout deleted, succeeds with 204 like the first one.
C3_LogoutAlwaysSucceeds ==
  (resp.op = "getDisconnect" /\ resp.req.token \in revoked) => resp.status = 204

\* C3 amended: logout of a token whose session entry is present answers 204
\* and deletes the entry; a second logout of the token, or a logout of any
\* token whose entry is absent, answers 401 Unauthorized and leaves the
\* session store unchanged.
C3_LogoutOfAbsentSessionIs401 ==
  /\ \A t \in TokenInputs :
       LET out == getDisconnectResult(t)
       IN IF resolve(t) = null
          THEN out.status = 401 /\ out.redis = redis
          ELSE /\ out.status = 204
               /\ RedisGet(out.redis, AuthKey(t), now) = null
               /\ \A e \in redis : e.key # AuthKey(t) => e \in out.redis
  /\ \A t \in revoked : getDisconnectResult(t).status = 401
  /\ (resp.op = "getDisconnect" /\ resp.status = 204)
       => resp.req.token \in revoked /\ resolve(resp.req.token) = null

\* a second logout of a token, answered 401
C3_Witness ==
  /\ resp.op = "getDisconnect" /\ resp.status = 401
  /\ resp.req.token \in revoked

\* the (email, password) pair a Basic credential string carries: the email
\* ends at the first colon, the password is all that follows it
PresentedPair(authorization) ==
  LET s == atob(authorization.credentials)
      colons == {i \in 1..Len(s) : s[i] = ":"}
      first == CHOOSE i \in colons : \A j \in colons : i <= j
  IN IF colons = {}
     THEN [email |-> s, password |-> <<>>]
     ELSE [email |-> SubSeq(s, 1, first - 1),
           password |-> SubSeq(s, first + 1, Len(s))]

MatchesStoredUser(authorization) ==
  /\ authorization # null
  /\ authorization.credentials # null
  /\ LET c == PresentedPair(authorization)
     IN getUserByCredentials(c.email, sha1(c.password)) # null

\* C4: a login whose (email, password) pair matches no stored user, or with
\* missing credentials, answers 401 and creates no session.
C4_UnmatchedLoginRejected ==
  (resp.op = "getConnect" /\ ~MatchesStoredUser(resp.req.authorization))
    => /\ resp.status = 401
       /\ \A s \in issued : resp.body # [token |-> s.token]

(***************************************************************************)
(* File service: properties                                                *)
(***************************************************************************)
recordOf(fileId) ==
  IF isValidId(fileId) THEN getFileById(ObjectId(fileId)) ELSE null

NotFoundResponse == [status |-> 404, body |-> NotFound]

\* C5: a publish or unpublish whose caller is unauthenticated or is not the
\* record's owner fails (401 without identity, 404 Not found for another
\* user) and leaves the collection as it was, whatever the record's
\* visibility; and whenever a record's isPublic changes, the step is a
\* publish or unpublish of that record by its owner.
C5_Refused ==
  \A t \in FileTokenInputs, id \in FileIdInputs, flag \in BOOLEAN :
    LET rec == recordOf(id)
        out == publishUnpublish(t, id, flag)
        r == putPublishResponse(out)
    IN (rec # null /\ resolve(t) # toString(rec.userId))
         => /\ out.files = files
            /\ r.body \in {Unauthorized, NotFound}
            /\ r.status = IF resolve(t) = null THEN 401 ELSE 404
            /\ resolve(t) # null => r = NotFoundResponse

C5_ChangedByOwner ==
  \A i \in 1..Len(files) :
    files'[i].isPublic # files[i].isPublic
      => /\ resp'.op \in {"putPublish", "putUnpublish"}
         /\ resp'.status = 200
         /\ resp'.req.id = toString(files[i].id)
         /\ resolve(resp'.req.token) = toString(files[i].userId)

C5_IsPublicOnlyByOwner == [](C5_Refused) /\ [][C5_ChangedByOwner]_vars

\* a publish of a private record by the other user, answered 404
C5_Witness ==
  /\ resp.op = "putPublish" /\ resp.status = 404
  /\ recordOf(resp.req.id) # null
  /\ ~recordOf(resp.req.id).isPublic
  /\ resolve(resp.req.token) # null
  /\ resolve(resp.req.token) # toString(recordOf(resp.req.id).userId)

\* C6: after a publish of a private record by its owner the collection
\* differs from before in that record's isPublic alone, and after the
\* unpublish that follows it (no other change in between) the collection is
\* what it was before the publish: every field of every record the same.
C6_PublishUnpublishRoundTrip ==
  trip # null =>
    LET i == CHOOSE k \in 1..Len(trip.before) :
               toString(trip.before[k].id) = trip.id
    IN /\ ~trip.before[i].isPublic
       /\ trip.done => files = trip.before
       /\ ~trip.done => files = [trip.before EXCEPT ![i].isPublic = TRUE]

\* publish then unpublish of one of two records has been done
C6_Witness ==
  /\ trip # null /\ trip.done
  /\ Len(files) >= 2
  /\ resp.op = "putUnpublish" /\ resp.status = 200
  /\ resp.body.isPublic = FALSE

\* C7: getFile passes the access check exactly when the record exists and
\* is public or owned by the resolved caller, also for a caller without
\* identity; otherwise the response is 404 Not found, the very response an
\* id that does not exist gets.
C7_ContentAccess ==
  \A t \in FileTokenInputs, id \in FileIdInputs, size \in {0, 500} :
    LET rec == recordOf(id)
        out == getFileResult(t, id, size)
        granted == /\ rec # null
                   /\ rec.isPublic \/ resolve(t) = toString(rec.userId)
    IN /\ ~granted => /\ out = NotFoundResponse
                      /\ out = getFileResult(t, AbsentFileId, size)
       /\ (granted /\ rec.type = "folder") => out.status = 400
       /\ (granted /\ rec.type # "folder" /\ size = 0)
            => out.status = 200 /\ out.body.data = rec.localPath
       /\ out.status = 200 => granted

\* a private file asked for by the other user, answered 404
C7_Witness ==
  /\ resp.op = "getFile" /\ resp.status = 404 /\ resp.body = NotFound
  /\ recordOf(resp.req.id) # null
  /\ recordOf(resp.req.id).type = "file"
  /\ ~recordOf(resp.req.id).isPublic
  /\ resolve(resp.req.token) # null
  /\ resolve(resp.req.token) # toString(recordOf(resp.req.id).userId)

\* C8: getShow by an authenticated caller returns a record only to its
\* owner; for a record of another user, public or not, the response is
\* 404 Not found, the very response an id that does not exist gets.
C8_ShowOwnerOnly ==
  \A t \in FileTokenInputs, id \in FileIdInputs :
    LET rec == recordOf(id)
        out == getShowResult(t, id)
    IN /\ (resolve(t) # null /\ rec # null
             /\ resolve(t) # toString(rec.userId))
            => /\ out = NotFoundResponse
               /\ out = getShowResult(t, AbsentFileId)
       /\ out.status = 200
            => /\ rec # null /\ resolve(t) = toString(rec.userId)
               /\ out.body = processFile(rec)
       /\ (resolve(t) # null /\ rec # null
             /\ resolve(t) = toString(rec.userId)) => out.status = 200

\* a public record asked for by the other user, answered 404
C8_Witness ==
  /\ resp.op = "getShow" /\ resp.status = 404 /\ resp.body = NotFound
  /\ recordOf(resp.req.id) # null
  /\ recordOf(resp.req.id).isPublic
  /\ resolve(resp.req.token) # null
  /\ resolve(resp.req.token) # toString(recordOf(resp.req.id).userId)

\* C9: a folder record has no localPath and its upload writes nothing; a
\* file or image record has its own blob, on disk in every state the record
\* is in the collection; the disk holds those blobs and, at most, the blob
\* of the upload in flight whose record is not inserted yet.
C9_BlobBeforeRecord ==
  LET nonFolder == {i \in 1..Len(files) : files[i].type # "folder"}
      inFlight == IF up # null /\ up.localPath # null
                  THEN {up.localPath} ELSE {}
  IN /\ \A i \in 1..Len(files) :
          IF files[i].type = "folder"
          THEN files[i].localPath = null
          ELSE files[i].localPath # null /\ files[i].localPath \in disk
     /\ \A i \in nonFolder, j \in nonFolder :
          files[i].localPath = files[j].localPath => i = j
     /\ disk \subseteq BlobsOf(files) \cup inFlight
     /\ Cardinality(disk) <= Cardinality(nonFolder) + Cardinality(inFlight)

\* beside a folder record, a file upload has written its blob and not yet
\* inserted its record
C9_Witness ==
  /\ \E i \in 1..Len(files) : files[i].type = "folder"
  /\ up # null /\ up.fileParams.type = "file"
  /\ up.localPath \in disk
  /\ up.localPath \notin BlobsOf(files)

\* C10: when saveFile reports a failure, the caller gets an error response
\* with the failure's status (400 or 500).
C10_SaveFailureAnswered ==
  (resp.op = "postUpload" /\ resp.req.saveCode # 0)
    => /\ resp.status = resp.req.saveCode
       /\ resp.status \in {400, 500}

(***************************************************************************)
(* Listing: properties                                                     *)
(***************************************************************************)
\* the records under a parent, in the order of the collection, as shown
MatchesOf(parent) ==
  LET at == {i \in 1..Len(files) : files[i].parentId = parent}
      nth(k) == CHOOSE i \in at : Cardinality({j \in at : j <= i}) = k
  IN [k \in 1..Cardinality(at) |-> processFile(files[nth(k)])]

RECURSIVE PagesUpTo(_, _, _)
PagesUpTo(t, par, k) ==
  IF k < 0 THEN <<>>
  ELSE PagesUpTo(t, par, k - 1) \o getIndexResult(t, par, [num |-> k]).body.list

\* C11: for a zero-based page p and a parent with n matching records, the
\* listing is the records at positions 20p .. min(20p+20, n)-1 of the
\* collection's order for that parent: at most 20 a page, the pages 0..k
\* put end to end are the first min(20(k+1), n) matches, and a page past the
\* end is the empty list.
C11_PageSlices ==
  \A t \in {s.token : s \in issued},
     par \in {null, Zero, toString(FileOid(1))}, p \in 0..MaxPage :
    LET m == MatchesOf(IF par \in {null, Zero} THEN 0 ELSE ObjectId(par))
        n == Len(m)
        lo == 20 * p
        hi == IF 20 * p + 20 < n THEN 20 * p + 20 ELSE n
        out == getIndexResult(t, par, [num |-> p])
        all == PagesUpTo(t, par, p)
    IN /\ out.status = 200
       /\ Len(out.body.list) <= 20
       /\ Len(out.body.list) = IF hi > lo THEN hi - lo ELSE 0
       /\ \A i \in 1..Len(out.body.list) : out.body.list[i] = m[lo + i]
       /\ all = SubSeq(m, 1, IF 20 * (p + 1) < n THEN 20 * (p + 1) ELSE n)
       /\ lo >= n => out.body.list = <<>>

\* page 2 of a folder with 45 children has been listed: the last 5
C11_Witness ==
  /\ resp.op = "getIndex" /\ resp.status = 200
  /\ resp.req.parentId = toString(FileOid(1))
  /\ resp.req.page = [num |-> 2]
  /\ Len(MatchesOf(FileOid(1))) = 45
  /\ Len(resp.body.list) = 5
  /\ resp.body.list[5] = processFile(files[Len(files)])

\* C12: a listing whose page input is negative or non-numeric gives what
\* page 0 gives, and the skip passed to the store is never negative.
C12_BadPageIsPageZero ==
  (/\ resp.op = "getIndex"
   /\ resp.req.page # null
   /\ "num" \in DOMAIN resp.req.page => resp.req.page.num < 0)
    => LET zero == getIndexResult(resp.req.token, resp.req.parentId,
                                  [num |-> 0])
       IN /\ resp.status = zero.status /\ resp.body = zero.body
          /\ resp.req.skip # null => resp.req.skip.number >= 0

\* C13: a listing by an authenticated caller whose non-root parentId is
\* malformed, absent or the id of a file or image is a successful empty
\* page, never an error.
C13_BadParentIsEmptyPage ==
  (/\ resp.op = "getIndex"
   /\ resolve(resp.req.token) # null
   /\ resp.req.parentId \notin {null, Zero}
   /\ \/ recordOf(resp.req.parentId) = null
      \/ recordOf(resp.req.parentId).type # "folder")
    => resp.status = 200 /\ resp.body = [list |-> <<>>]

(***************************************************************************)
(* The thumbnail pipeline: properties                                      *)
(***************************************************************************)
\* the jobs an image upload by a registered user can add
ProducibleJobs ==
  {[fileId |-> toString(FileOid(i)), userId |-> toString(UserOid(u))] :
     i \in 1..MaxFiles, u \in 1..Len(InitUsers)}

\* the handler was called for the job, passed its checks with the job's two
\* ids and started the three attempts
ReachedGeneration(j) ==
  \E k \in 1..Len(runs) :
    /\ runs[k].data = j
    /\ runs[k].outcome = "completed"
    /\ \A w \in Widths : runs[k].attempts[w].pc # "none"

\* C14: every job a successful image upload has put into its queue is
\* eventually taken by the worker, passes the worker's checks with the
\* fileId and owner id of its payload, and reaches thumbnail generation.
C14_JobReachesWorker ==
  \A j \in ProducibleJobs :
    (\E i \in 1..Len(fileQueue) : fileQueue[i] = j) ~> ReachedGeneration(j)

AllWritten(r) == \A w \in Widths : r.attempts[w].pc = "written"

Holds(path, data) == \E f \in thumbnails : f.path = path /\ f.data = data

\* C15: when the three attempts of a job whose record exists have finished
\* without failure, localPath_<w> exists for each w in {500, 250, 100} and
\* holds the raster of width w, whatever the order the callbacks ran in;
\* every raster an attempt for w has generated has width w.
C15_EachWidthAtItsPath ==
  \A k \in 1..Len(runs) :
    /\ \A w \in Widths :
         runs[k].attempts[w].pc \in {"writing", "written"}
           => runs[k].attempts[w].raster = Raster(runs[k].localPath, w)
    /\ AllWritten(runs[k])
         => \A w \in Widths :
              /\ thumbnailPath(runs[k].localPath, w) \in disk
              /\ Holds(thumbnailPath(runs[k].localPath, w),
                       Raster(runs[k].localPath, w))

\* the three attempts of a job have written their files
C15_Witness ==
  /\ Len(runs) = 1
  /\ AllWritten(runs[1])
  /\ Cardinality(thumbnails) = 3
  /\ \E f \in thumbnails : f.path.width = 500 /\ f.data.width = 500

\* C16: the failure of an attempt leaves the other attempts of the job as
\* they are and able to go on, does not fail the job and adds no job to a
\* queue; no step of the worker adds a job to a queue.
C16_FailureAlone ==
  \A k \in 1..Len(runs), w \in Widths :
    (runs'[k].attempts[w].pc = "failed" /\ runs[k].attempts[w].pc # "failed")
      => /\ \A v \in Widths \ {w} : runs'[k].attempts[v] = runs[k].attempts[v]
         /\ runs'[k].outcome = "completed"
         /\ fileProcessingQueue' = fileProcessingQueue
         /\ fileQueue' = fileQueue

C16_NoJobAdded ==
  /\ Len(fileProcessingQueue') <= Len(fileProcessingQueue)
  /\ fileQueue' = fileQueue

C16_OthersGoOn ==
  \A k \in 1..Len(runs), w \in Widths :
    /\ runs[k].attempts[w].pc = "generating"
         => ENABLED imageThumbnailDone(k, w, TRUE)
    /\ runs[k].attempts[w].pc = "writing"
         => ENABLED writeFileDone(k, w, TRUE)
    /\ runs[k].attempts[w].pc # "none" => runs[k].outcome = "completed"

C16_IndependentFailures ==
  /\ [](C16_OthersGoOn)
  /\ [][C16_FailureAlone /\ C16_NoJobAdded]_vars

\* generation failed for 500, the write failed for 250, and 100 is written
C16_Witness ==
  /\ Len(runs) = 1 /\ fileProcessingQueue = <<>>
  /\ runs[1].outcome = "completed"
  /\ runs[1].attempts[500].pc = "failed" /\ runs[1].attempts[500].raster = null
  /\ runs[1].attempts[250].pc = "failed" /\ runs[1].attempts[250].raster # null
  /\ runs[1].attempts[100].pc = "written"
  /\ thumbnails = {[path |-> thumbnailPath(runs[1].localPath, 100),
                    data |-> Raster(runs[1].localPath, 100)]}

\* what one run of the job without failure leaves
OnceProcessed(localPath) ==
  {[path |-> thumbnailPath(localPath, w), data |-> Raster(localPath, w)] :
     w \in Widths}

\* C17: processing the same job twice, one run after the other or the two
\* interleaved, leaves what processing it once leaves: the same three files
\* at the same names with the same contents, no other file, no record
\* changed.
C17_DuplicateDelivery ==
  LET localPath == WorkerFiles[1].localPath
  IN /\ thumbnails \subseteq OnceProcessed(localPath)
     /\ (\E k \in 1..Len(runs) : AllWritten(runs[k]))
          => thumbnails = OnceProcessed(localPath)
     /\ files = WorkerFiles
     /\ disk = BlobsOf(files) \cup {f.path : f \in thumbnails}

\* the job has been processed twice, every attempt of both runs has written
C17_Witness ==
  /\ Len(runs) = 2
  /\ runs[1].data = runs[2].data
  /\ AllWritten(runs[1]) /\ AllWritten(runs[2])
  /\ thumbnails = OnceProcessed(WorkerFiles[1].localPath)

(***************************************************************************)
(* Users: properties                                                       *)
(***************************************************************************)
\* C18: no two user records have the same email, and a registration
\* answered 201 has added the only record with its email, also when two
\* registrations for the same email overlap between lookup and insert.
C18_EmailUnique ==
  /\ \A i \in 1..Len(users), j \in 1..Len(users) :
       users[i].email = users[j].email => i = j
  /\ (resp.op = "postNew" /\ resp.status = 201)
       => Cardinality({i \in 1..Len(users) :
                         users[i].email = resp.body.email}) = 1

Hashes == {users[i].password : i \in 1..Len(users)}

IdAndEmailOnly(body) ==
  /\ DOMAIN body = {"id", "email"}
  /\ body.email \notin Hashes
  /\ \E i \in 1..Len(users) :
       users[i].id = body.id /\ users[i].email = body.email

\* C19: a response of postNew or getMe that carries a user carries the id
\* and the email of a stored user and nothing else: never the password hash.
C19_NoHashInResponses ==
  /\ \A t \in TokenInputs :
       getMeResult(t).status = 200 => IdAndEmailOnly(getMeResult(t).body)
  /\ (resp.op = "getMe" /\ resp.status = 200) => IdAndEmailOnly(resp.body)
  /\ (resp.op = "postNew" /\ resp.status = 201) => IdAndEmailOnly(resp.body)
  /\ (resp.op \in {"postNew", "getMe"} /\ resp.status \notin {200, 201})
       => DOMAIN resp.body = {"error"}

\* getMe has answered for the second of two registered users
C19_Witness ==
  /\ Len(users) = 2
  /\ resp.op = "getMe" /\ resp.status = 200
  /\ resp.body.id = users[2].id /\ resp.body.email = users[2].email
  /\ users[2].password = sha1(<<"a">>)

(***************************************************************************)
(* Uploads: the parent of a record                                         *)
(***************************************************************************)
isFolderId(oid) == \E j \in 1..Len(files) : files[j].id = oid /\ files[j].type = "folder"

C20_ParentOfEveryRecord ==
  /\ \A i \in 1..Len(files) :
       files[i].parentId = 0 \/ isFolderId(files[i].parentId)
  /\ up # null
       => \/ up.fileParams.parentId = Zero
          \/ isFolderId(ObjectId(up.fileParams.parentId))

C20_BadParentRefused ==
  (/\ resp' # resp /\ resp'.op = "postUpload"
   /\ resolve(resp'.req.token) # null
   /\ resp'.req.parentId \notin {null, Zero}
   /\ \/ recordOf(resp'.req.parentId) = null
      \/ recordOf(resp'.req.parentId).type # "folder")
    => /\ resp'.status = 400
       /\ files' = files /\ disk' = disk /\ fileQueue' = fileQueue
       /\ up = null /\ up' = null

\* C20: the parentId of every record is 0 or the id of a record of type
\* folder; an upload by an authenticated caller whose non-root parentId is
\* malformed, absent or the id of a file or image is answered 400, adds no
\* record and writes no blob.
C20_ParentIsFolder ==
  /\ [](C20_ParentOfEveryRecord)
  /\ [][C20_BadParentRefused]_vars

\* an upload into a file has been refused, beside a record in a folder
C20_Witness ==
  /\ resp.op = "postUpload" /\ resp.status = 400
  /\ resp.body = [error |-> "Parent not found"]
  /\ resolve(resp.req.token) # null
  /\ recordOf(resp.req.parentId) # null
  /\ recordOf(resp.req.parentId).type = "file"
  /\ \E i \in 1..Len(files) : files[i].parentId # 0

(***************************************************************************)
(* Uploads: the jobs they add                                              *)
(***************************************************************************)
\* C21: the 'fileQueue' queue holds one job for each stored record of type
\* image, added after the record was stored and carrying its id and its
\* owner's id, and no other job: uploads of a folder or a file, uploads
\* without identity and uploads that fail validation or saving add none.
C21_JobsAreStoredImages ==
  LET jobs == JobsOf(files)
  IN /\ Len(fileQueue) <= Len(jobs)
     /\ fileQueue = SubSeq(jobs, 1, Len(fileQueue))
     /\ up = null => fileQueue = jobs

(***************************************************************************)
(* The worker: jobs dropped and jobs completed                             *)
(***************************************************************************)
\* a job whose fileId or owner id is missing or not the text of an id, or
\* whose two ids are those of no record
BadJob(data) ==
  \/ "fileId" \notin DOMAIN data \/ "ownerId" \notin DOMAIN data
  \/ "hex" \notin DOMAIN data.fileId \/ "hex" \notin DOMAIN data.ownerId
  \/ ~\E i \in 1..Len(files) :
        files[i].id = data.fileId.hex /\ files[i].userId = data.ownerId.hex

C22_DroppedRunsIdle ==
  /\ \A k \in 1..Len(runs) :
       BadJob(runs[k].data)
         => /\ runs[k].outcome = "failed"
            /\ \A w \in Widths : runs[k].attempts[w].pc = "none"
  /\ thumbnails # {} => \E k \in 1..Len(runs) : ~BadJob(runs[k].data)

C22_DropStep ==
  /\ (Len(runs') > Len(runs) /\ BadJob(runs'[Len(runs')].data))
       => /\ thumbnails' = thumbnails /\ disk' = disk
          /\ fileProcessingQueue' = Tail(fileProcessingQueue)
  /\ files' = files
  /\ fileQueue' = fileQueue
  /\ Len(fileProcessingQueue') <= Len(fileProcessingQueue)

\* C22: a job whose fileId or owner id is missing or malformed, or whose
\* (fileId, owner id) pair is that of no record, is dropped: its run fails
\* without an attempt, writes no file, changes no record, and no job is
\* added to a queue.
C22_BadJobDropped ==
  /\ [](C22_DroppedRunsIdle)
  /\ [][C22_DropStep]_vars

\* a job naming the record with another user's id was delivered twice and
\* dropped twice
C22_Witness ==
  /\ Len(runs) = 2 /\ fileProcessingQueue = <<>>
  /\ runs[1].data = [fileId |-> toString(FileOid(1)),
                     ownerId |-> toString(UserOid(2))]
  /\ runs[2].error = [msg |-> "File not found."]
  /\ thumbnails = {} /\ disk = BlobsOf(files)

\* C23: when the handler has returned and the job is completed, the three
\* attempts of the job have finished: each has written its file or failed.
C23_CompletedMeansFinished ==
  \A k \in 1..Len(runs) :
    runs[k].outcome = "completed"
      => \A w \in Widths : runs[k].attempts[w].pc \in {"written", "failed"}

(***************************************************************************)
(* DBClient: properties                                                    *)
(***************************************************************************)
\* C24: DBClient.isAlive() is true exactly when the connection has been
\* established (false while the connect promise is pending and after it
\* rejects), so that nbUsers and nbFiles use the handle only when it is set:
\* no GET /stats ends in a TypeError.
C24_AliveIffConnected ==
  /\ dbClient_isAlive <=> db = client_db
  /\ resp.op = "getStats" => "threw" \notin DOMAIN resp.body

====
